---- MODULE Spec2Model ----
(***************************************************************************)
(* Model of the Messer session (src/messer.js): the thread cache, the      *)
(* name resolver, getThreadById and the command dispatcher processCommand. *)
(*                                                                         *)
(* Strings are sequences of atoms.  An input line is a sequence over       *)
(* Atoms: each atom is a fragment of text ("m", "un", "lock") or one       *)
(* whitespace character (" ", "\n").  No atom is the concatenation of      *)
(* other atoms, so two atom sequences are equal exactly when the strings   *)
(* they spell are equal.  Thread names are sequences of letters.           *)
(***************************************************************************)
EXTENDS Integers, Sequences, FiniteSets, TLC

\* ------------------------------------------------------------------ bounds
MaxLineLen == 3
MaxUnread == 2
MaxPuts == 2
MaxCommands == 2

\* ------------------------------------------------------------- value sets
Atoms == {"m", "un", "lock", " ", "\n"}
Whitespace == {" ", "\n", "\t"}

RECURSIVE SeqsUpTo(_, _)
SeqsUpTo(S, n) ==
  IF n = 0 THEN {<<>>}
  ELSE LET shorter == SeqsUpTo(S, n - 1)
       IN  shorter \cup {Append(s, x) : s \in {t \in shorter : Len(t) = n - 1}, x \in S}

Lines == SeqsUpTo(Atoms, MaxLineLen)
Names == {<<"A", "l">>, <<"a", "l">>, <<"B">>}
ThreadIds == {"1", "2", "3"}
Colors == {"red", "blue"}

\* the logged-in user and the friends directory (messen.user)
user ==
  [id |-> "1", name |-> <<"A", "l">>,
   friends |-> <<[userID |-> "2", fullName |-> <<"B">>],
                 [userID |-> "4", fullName |-> <<"b">>]>>]

\* what a caller can type for a thread name: any prefix of a name, in either case
RECURSIVE Prefixes(_)
Prefixes(s) == IF s = <<>> THEN {<<>>} ELSE {s} \cup Prefixes(SubSeq(s, 1, Len(s) - 1))

NoName == <<>>
NoHandler == "none"
NoThread == "null"

\* -------------------------------------------------- JavaScript string ops
\* String.prototype.trim
RECURSIVE TrimLeft(_)
TrimLeft(s) ==
  IF s = <<>> THEN <<>>
  ELSE IF Head(s) \in Whitespace THEN TrimLeft(Tail(s)) ELSE s

RECURSIVE TrimRight(_)
TrimRight(s) ==
  IF s = <<>> THEN <<>>
  ELSE IF s[Len(s)] \in Whitespace THEN TrimRight(SubSeq(s, 1, Len(s) - 1)) ELSE s

trim(s) == TrimRight(TrimLeft(s))

\* String.prototype.replace(c, ""): only the first occurrence is removed
RECURSIVE replaceFirst(_, _)
replaceFirst(s, c) ==
  IF s = <<>> THEN <<>>
  ELSE IF Head(s) = c THEN Tail(s)
  ELSE <<Head(s)>> \o replaceFirst(Tail(s), c)

\* String.prototype.split(sep): the pieces between separators, empty pieces kept
RECURSIVE splitAcc(_, _, _)
splitAcc(s, sep, cur) ==
  IF s = <<>> THEN <<cur>>
  ELSE IF Head(s) = sep THEN <<cur>> \o splitAcc(Tail(s), sep, <<>>)
  ELSE splitAcc(Tail(s), sep, Append(cur, Head(s)))

split(s, sep) == splitAcc(s, sep, <<>>)

\* Array.prototype.join(sep)
RECURSIVE join(_, _)
join(parts, sep) ==
  IF parts = <<>> THEN <<>>
  ELSE IF Len(parts) = 1 THEN parts[1]
  ELSE parts[1] \o <<sep>> \o join(Tail(parts), sep)

\* String.prototype.toLowerCase
lowerChar(c) == IF c = "A" THEN "a" ELSE IF c = "B" THEN "b" ELSE c
toLowerCase(s) == [i \in 1..Len(s) |-> lowerChar(s[i])]

\* String.prototype.startsWith
startsWith(s, p) == Len(p) <= Len(s) /\ SubSeq(s, 1, Len(p)) = p

TypedNames ==
  UNION {Prefixes(n) \cup Prefixes(toLowerCase(n)) : n \in Names}

\* thread objects as the backend hands them out: the cached fields and more
BackendThread(id, name, color) ==
  [threadID |-> id, name |-> name, color |-> color,
   lastMessageTimestamp |-> IF color = "red" THEN 1 ELSE 2,
   unreadCount |-> IF color = "red" THEN 0 ELSE 3,
   participantIDs |-> {id}]

BackendThreads(id) ==
  {BackendThread(id, name, color) : name \in Names \cup {NoName}, color \in Colors}

AllBackendThreads == UNION {BackendThreads(id) : id \in ThreadIds}

\* the threads of one colour: the colour is passed through and decides nothing
RedThreads == {t \in AllBackendThreads : t.color = "red"}

\* ------------------------------------------------------ command registry
\* verb string -> handler; lookup miss for every other string
UNLOCK == <<"un", "lock">>

getCommandHandler(verb) ==
  IF verb = <<"m">> THEN "m"
  ELSE IF verb = UNLOCK THEN "unlock"
  ELSE IF verb = <<"lock">> THEN "lock"
  ELSE NoHandler

\* ------------------------------------------------------------------ state
VARIABLES
  threadCache,          \* this.threadCache: thread id -> cached projection
  threadNameToIdMap,    \* this.threadNameToIdMap, as <<name, id>> entries in key insertion order
  lastThread,           \* this.lastThread
  unreadMessagesCount,  \* this.unreadMessagesCount
  lockState,            \* util/lock: [locked, target]
  pending,              \* the getThreadInfo request in flight, if any
  repl,                 \* the REPL: "prompt" (waiting for a line) or "settled" (eval done, cb not yet called)
  last,                 \* what the most recent call did and returned
  nPuts,                \* number of cacheThread calls so far
  lastPut,              \* history: the last thread put under each id and under each name
  session               \* the lifecycle of the session: start, startSingle, login, logout

vars == <<threadCache, threadNameToIdMap, lastThread, unreadMessagesCount,
          lockState, pending, repl, last, nPuts, lastPut, session>>

Unlocked == [locked |-> FALSE, target |-> <<>>]
LockedOn(t) == [locked |-> TRUE, target |-> t]

\* util/lock
isLocked == lockState.locked
getLockedTarget == lockState.target

Idle == [active |-> FALSE, threadID |-> NoThread, requireName |-> FALSE,
         byName |-> FALSE, typed |-> <<>>]

\* the session state processCommand can change, captured when the call starts
Snapshot ==
  [threadCache |-> threadCache, threadNameToIdMap |-> threadNameToIdMap,
   lastThread |-> lastThread, unreadMessagesCount |-> unreadMessagesCount,
   lockState |-> lockState]

NoValue == [threadID |-> NoThread, name |-> NoName]

NoCall ==
  [op |-> "none", input |-> <<>>, invoked |-> <<>>, outcome |-> "none",
   error |-> "none", handlerOutcome |-> "none", threadID |-> NoThread,
   requireName |-> FALSE, value |-> NoValue, backendCalls |-> 0,
   usedFriends |-> FALSE,
   response |-> [present |-> FALSE, threads |-> <<>>],
   before |-> [threadCache |-> << >>, threadNameToIdMap |-> <<>>,
               lastThread |-> NoThread, unreadMessagesCount |-> 0,
               lockState |-> Unlocked]]

\* ------------------------------------------------ Messer.prototype.cacheThread
\* lines 136-142: only the needed fields are kept
project(thread) ==
  [name |-> thread.name, threadID |-> thread.threadID, color |-> thread.color,
   lastMessageTimestamp |-> thread.lastMessageTimestamp,
   unreadCount |-> thread.unreadCount]

\* the assignment left out
cacheSetSkipped(cache, id, entry) == cache

\* this.threadCache[id] = entry
cacheSet(cache, id, entry) ==
  [k \in DOMAIN cache \cup {id} |-> IF k = id THEN entry ELSE cache[k]]

\* Object.keys(this.threadNameToIdMap)
keys(index) == [i \in 1..Len(index) |-> index[i][1]]
hasKey(index, name) == \E i \in 1..Len(index) : index[i][1] = name
\* this.threadNameToIdMap[name]; the key must be present
idOf(index, name) == index[CHOOSE i \in 1..Len(index) : index[i][1] = name][2]

\* the assignment that leaves an existing key alone
indexSetKeepsFirst(index, name, id) ==
  IF hasKey(index, name) THEN index ELSE Append(index, <<name, id>>)

\* this.threadNameToIdMap[name] = id: an existing key keeps its place
indexSet(index, name, id) ==
  IF hasKey(index, name)
  THEN [i \in 1..Len(index) |-> IF index[i][1] = name THEN <<name, id>> ELSE index[i]]
  ELSE Append(index, <<name, id>>)

\* lines 144-146
indexThread(index, thread) ==
  IF thread.name # NoName THEN indexSet(index, thread.name, thread.threadID) ELSE index

\* f with x mapped to v
Assign(f, x, v) == [k \in DOMAIN f \cup {x} |-> IF k = x THEN v ELSE f[k]]

cacheThread(thread) ==
  /\ threadCache' = cacheSet(threadCache, thread.threadID, project(thread))
  /\ threadNameToIdMap' = indexThread(threadNameToIdMap, thread)
  /\ nPuts' = nPuts + 1
  /\ lastPut' = [byId |-> Assign(lastPut.byId, thread.threadID, thread),
                 byName |-> IF thread.name # NoName
                            THEN Assign(lastPut.byName, thread.name, thread.threadID)
                            ELSE lastPut.byName]

\* ------------------------------------------------------ Messer.prototype.clear
\* clear without the reset
clearKeeps(count) == count

clear(count) == IF count = 0 THEN count ELSE 0

\* --------------------------------------------- Messer.prototype.processCommand
\* the test without the trim
isBlankUntrimmed(rawCommand) == Len(rawCommand) = 0

\* line 105: the "only spaces" test
isBlank(rawCommand) == Len(trim(rawCommand)) = 0

\* line 107
commandArgs(rawCommand) == split(replaceFirst(rawCommand, "\n"), " ")

\* the rewrite with the typed verb dropped
lockedLineNoVerb(target, args) ==
  <<"m", " ">> \o <<"\"">> \o target \o <<"\"", " ">> \o join(Tail(args), " ")

\* lines 116-120: the line handed to the m handler while locked
lockedLine(target, args) ==
  <<"m", " ">> \o <<"\"">> \o target \o <<"\"", " ">> \o join(args, " ")

\* the lock branch without the unlock test
resolveCommandNoEscape(rawCommand, locked, target) ==
  LET args == commandArgs(rawCommand)
  IN  IF locked
      THEN [handler |-> getCommandHandler(<<"m">>), line |-> lockedLine(target, args)]
      ELSE [handler |-> getCommandHandler(args[1]), line |-> rawCommand]

\* lines 109-122: the handler and the line it will get
resolveCommand(rawCommand, locked, target) ==
  LET args == commandArgs(rawCommand)
      direct == getCommandHandler(args[1])
  IN  IF locked
      THEN IF trim(rawCommand) = UNLOCK
           THEN [handler |-> getCommandHandler(UNLOCK), line |-> rawCommand]
           ELSE [handler |-> getCommandHandler(<<"m">>),
                 line |-> lockedLine(target, args)]
      ELSE [handler |-> direct, line |-> rawCommand]

\* The command handlers (commands/command-handlers): what a handler does to the
\* lock when it runs with the given outcome.  lock pins a target, unlock clears
\* the pin, m sends a message to the backend.
HandlerOutcomes(handler) ==
  IF handler = "unlock"
  THEN IF isLocked THEN {"resolved"} ELSE {"rejected"}
  ELSE {"resolved", "rejected"}

HandlerLock(handler, outcome, target) ==
  IF outcome # "resolved" THEN lockState
  ELSE IF handler = "unlock" THEN Unlocked
  ELSE IF handler = "lock" THEN LockedOn(target)
  ELSE lockState

\* the missing handler called all the same
missingHandlerThrows ==
  [outcome |-> "thrown", error |-> "TypeError"]

\* lines 124-126: without a handler the call fails with a rejected promise
missingHandler ==
  [outcome |-> "rejected", error |-> "InvalidCommand"]

\* line 128: the dispatcher returns what the handler returned
returned(handlerOutcome) == handlerOutcome

ProcessCommand(rawCommand) ==
  /\ repl = "prompt"
  /\ repl' = "settled"
  /\ unreadMessagesCount' = clear(unreadMessagesCount)
  /\ UNCHANGED <<threadCache, threadNameToIdMap, lastThread, pending, nPuts, lastPut>>
  /\ IF isBlank(rawCommand)
     THEN /\ last' = [NoCall EXCEPT !.op = "processCommand", !.input = rawCommand,
                                    !.before = Snapshot, !.outcome = "resolved"]
          /\ UNCHANGED lockState
     ELSE LET r == resolveCommand(rawCommand, isLocked, getLockedTarget)
          IN  IF r.handler = NoHandler
              THEN /\ last' = [NoCall EXCEPT !.op = "processCommand",
                                             !.input = rawCommand,
                                             !.before = Snapshot,
                                             !.outcome = missingHandler.outcome,
                                             !.error = missingHandler.error]
                   /\ UNCHANGED lockState
              ELSE \E outcome \in HandlerOutcomes(r.handler), target \in Names :
                     /\ r.handler # "lock" => target = CHOOSE n \in Names : TRUE
                     /\ lockState' = HandlerLock(r.handler, outcome, target)
                     /\ last' = [NoCall EXCEPT
                                   !.op = "processCommand",
                                   !.input = rawCommand,
                                   !.before = Snapshot,
                                   !.invoked = <<[handler |-> r.handler, line |-> r.line]>>,
                                   !.handlerOutcome = outcome,
                                   !.outcome = returned(outcome)]

\* event-handlers: an inbound message raises the unread count, its thread
\* becomes the last active thread and is put in the cache when it is not there
EventThreads ==
  {BackendThread("2", <<"B">>, "red"), BackendThread("3", <<"A", "l">>, "red")}

OnMessage(thread) ==
  /\ unreadMessagesCount < MaxUnread
  /\ unreadMessagesCount' = unreadMessagesCount + 1
  /\ lastThread' = thread.threadID
  /\ last' = [NoCall EXCEPT !.op = "onMessage"]
  /\ IF thread.threadID \in DOMAIN threadCache \/ nPuts >= MaxPuts
     THEN UNCHANGED <<threadCache, threadNameToIdMap, nPuts, lastPut>>
     ELSE cacheThread(thread)
  /\ UNCHANGED <<lockState, pending, repl, session>>

\* the catch branch without its cb(null)
afterCommandFailureHangs(outcome) ==
  IF outcome = "rejected" THEN "settled" ELSE "prompt"

\* Messer.prototype.start, lines 73-80: then and catch both end with cb(null),
\* which hands the prompt back
afterCommand(outcome) == "prompt"

\* Messer.prototype.start, lines 73-80: the result or the error text is logged
\* and cb(null) hands the prompt back
ReplCallback ==
  /\ repl = "settled"
  /\ repl' = afterCommand(last.outcome)
  /\ last' = NoCall
  /\ UNCHANGED <<threadCache, threadNameToIdMap, lastThread, unreadMessagesCount,
                 lockState, pending, nPuts, lastPut>>

\* event handlers and command handlers put the threads they learn about
CacheThread(thread) ==
  /\ nPuts < MaxPuts
  /\ cacheThread(thread)
  /\ last' = [NoCall EXCEPT !.op = "cacheThread", !.value = thread]
  /\ UNCHANGED <<lastThread, unreadMessagesCount, lockState, pending, repl, session>>

\* ---------------------------------------------- Messer.prototype.getThreadById
\* lines 211-229: the name of a nameless thread, when the caller requires one
needsFriendName(thread, requireName) == thread.name = NoName /\ requireName

friendIndexes(threadID) ==
  {i \in 1..Len(user.friends) : user.friends[i].userID = threadID}

\* Array.prototype.find: the first element that satisfies the test
first(S) == CHOOSE i \in S : \A j \in S : i <= j

\* the test that forgets the user's own thread
friendKnownFriendsOnly(threadID) == friendIndexes(threadID) # {}

friendKnown(threadID) == threadID = user.id \/ friendIndexes(threadID) # {}

friendName(threadID) ==
  IF threadID = user.id THEN user.name
  ELSE user.friends[first(friendIndexes(threadID))].fullName

\* lines 182-184: a thread without a name gets the typed text as its name
stamp(thread, threadName) ==
  IF thread.name = NoName THEN [thread EXCEPT !.name = threadName] ELSE thread

\* lines 202-206: a cached thread is returned at once, otherwise the backend is asked
GetThreadByIdCall(threadID, requireName) ==
  /\ ~pending.active
  /\ IF threadID \in DOMAIN threadCache
     THEN /\ last' = [NoCall EXCEPT !.op = "getThreadById", !.threadID = threadID,
                                    !.requireName = requireName,
                                    !.outcome = "resolved",
                                    !.value = threadCache[threadID]]
          /\ UNCHANGED pending
     ELSE /\ nPuts < MaxPuts
          /\ pending' = [active |-> TRUE, threadID |-> threadID,
                         requireName |-> requireName, byName |-> FALSE,
                         typed |-> <<>>]
          /\ last' = [NoCall EXCEPT !.op = "getThreadInfo", !.threadID = threadID]
  /\ UNCHANGED <<threadCache, threadNameToIdMap, lastThread, unreadMessagesCount,
                 lockState, repl, nPuts, lastPut, session>>

\* lines 206-234: the backend's callback, with an error or with the thread
GetThreadInfoCallback(err, data) ==
  /\ pending.active
  /\ data.threadID = pending.threadID
  /\ pending' = Idle
  /\ LET op == IF pending.byName THEN "getThreadByName" ELSE "getThreadById"
         call == [NoCall EXCEPT !.op = op, !.threadID = pending.threadID,
                                !.requireName = pending.requireName,
                                !.input = pending.typed, !.backendCalls = 1]
     IN  IF err
         THEN /\ last' = [call EXCEPT !.outcome = "rejected", !.error = "BackendError"]
              /\ UNCHANGED <<threadCache, threadNameToIdMap, nPuts, lastPut>>
         ELSE IF needsFriendName(data, pending.requireName)
                 /\ ~friendKnown(pending.threadID)
         THEN /\ last' = [call EXCEPT !.outcome = "rejected", !.error = "FriendNotFound"]
              /\ UNCHANGED <<threadCache, threadNameToIdMap, nPuts, lastPut>>
         ELSE LET thread == IF needsFriendName(data, pending.requireName)
                            THEN [data EXCEPT !.name = friendName(pending.threadID)]
                            ELSE data
              IN  /\ cacheThread(thread)
                  /\ last' = [call EXCEPT
                                !.outcome = "resolved",
                                !.value = IF pending.byName
                                          THEN stamp(thread, pending.typed)
                                          ELSE thread]
  /\ UNCHANGED <<lastThread, unreadMessagesCount, lockState, repl, session>>

\* -------------------------------------------- Messer.prototype.getThreadByName
\* the scan without toLowerCase
matchingKeysCaseSensitive(index, threadName) ==
  {i \in 1..Len(index) : startsWith(index[i][1], threadName)}

\* lines 155-157: the index keys that start with the typed text, case ignored
matchingKeys(index, threadName) ==
  {i \in 1..Len(index) :
     startsWith(toLowerCase(index[i][1]), toLowerCase(threadName))}

\* the friends scan without toLowerCase
matchingFriendsCaseSensitive(threadName) ==
  {i \in 1..Len(user.friends) : startsWith(user.friends[i].fullName, threadName)}

\* lines 163-165
matchingFriends(threadName) ==
  {i \in 1..Len(user.friends) :
     startsWith(toLowerCase(user.friends[i].fullName), toLowerCase(threadName))}

\* lines 172-175
friendThread(friend) == [name |-> friend.fullName, threadID |-> friend.userID]

GetThreadByName(threadName) ==
  /\ ~pending.active
  /\ LET hits == matchingKeys(threadNameToIdMap, threadName)
         call == [NoCall EXCEPT !.op = "getThreadByName", !.input = threadName]
     IN  IF hits = {}
         THEN /\ UNCHANGED <<threadCache, pending>>
              /\ LET friends == matchingFriends(threadName)
                 IN  IF friends = {}
                     THEN last' = [call EXCEPT !.outcome = "rejected",
                                               !.error = "ThreadNotFound",
                                               !.usedFriends = TRUE]
                     ELSE last' = [call EXCEPT
                                     !.outcome = "resolved",
                                     !.usedFriends = TRUE,
                                     !.value = friendThread(user.friends[first(friends)])]
         ELSE LET threadID == threadNameToIdMap[first(hits)][2]
              IN  IF threadID \in DOMAIN threadCache
                  THEN LET thread == stamp(threadCache[threadID], threadName)
                       IN  \* the resolved object is the cached object itself
                           /\ threadCache' = cacheSet(threadCache, threadID, thread)
                           /\ last' = [call EXCEPT !.outcome = "resolved",
                                                   !.threadID = threadID,
                                                   !.value = thread]
                           /\ UNCHANGED pending
                  ELSE /\ nPuts < MaxPuts
                       /\ pending' = [active |-> TRUE, threadID |-> threadID,
                                      requireName |-> FALSE, byName |-> TRUE,
                                      typed |-> threadName]
                       /\ last' = [NoCall EXCEPT !.op = "getThreadInfo",
                                                 !.threadID = threadID]
                       /\ UNCHANGED threadCache
  /\ UNCHANGED <<threadNameToIdMap, lastThread, unreadMessagesCount, lockState,
                 repl, nPuts, lastPut, session>>

\* ------------------------------------------ Messer.prototype.refreshThreadList
\* what getThreadList hands to its callback: no list, or a list of threads
Responses ==
  {[present |-> FALSE, threads |-> <<>>]}
    \cup {[present |-> TRUE, threads |-> l] : l \in SeqsUpTo(RedThreads, MaxPuts)}

\* the test that also refuses a list without threads
listAbsentOrEmpty(response) == ~response.present \/ response.threads = <<>>

\* line 48: !threads
listAbsent(response) == ~response.present

\* line 50: threads.forEach(thread => this.cacheThread(thread)), field by field
RECURSIVE cacheAll(_, _)
cacheAll(cache, threads) ==
  IF threads = <<>> THEN cache
  ELSE cacheAll(cacheSet(cache, Head(threads).threadID, project(Head(threads))),
                Tail(threads))

RECURSIVE indexAll(_, _)
indexAll(index, threads) ==
  IF threads = <<>> THEN index
  ELSE indexAll(indexThread(index, Head(threads)), Tail(threads))

RECURSIVE lastPutAll(_, _)
lastPutAll(puts, threads) ==
  IF threads = <<>> THEN puts
  ELSE LET thread == Head(threads)
       IN  lastPutAll([byId |-> Assign(puts.byId, thread.threadID, thread),
                       byName |-> IF thread.name # NoName
                                  THEN Assign(puts.byName, thread.name, thread.threadID)
                                  ELSE puts.byName],
                      Tail(threads))

\* lines 45-54: one getThreadList call; the callback's err is not looked at
RefreshThreadList(response) ==
  /\ session.phase = "authenticated"
  /\ nPuts + Len(response.threads) <= MaxPuts
  /\ session' = [session EXCEPT !.refreshed = TRUE]
  /\ LET call == [NoCall EXCEPT !.op = "refreshThreadList", !.response = response,
                                !.before = Snapshot, !.backendCalls = 1]
     IN  IF listAbsent(response)
         THEN /\ last' = [call EXCEPT !.outcome = "rejected",
                                      !.error = "NothingReturned"]
              /\ UNCHANGED <<threadCache, threadNameToIdMap, nPuts, lastPut>>
         ELSE /\ threadCache' = cacheAll(threadCache, response.threads)
              /\ threadNameToIdMap' = indexAll(threadNameToIdMap, response.threads)
              /\ nPuts' = nPuts + Len(response.threads)
              /\ lastPut' = lastPutAll(lastPut, response.threads)
              /\ last' = [call EXCEPT !.outcome = "resolved"]
  /\ UNCHANGED <<lastThread, unreadMessagesCount, lockState, pending, repl>>

\* ------------------------------ Messer.prototype.start, startSingle and logout
\* a constructed session on which neither start nor startSingle has been called
NotStarted ==
  [mode |-> "none", phase |-> "unauthenticated", loggedIn |-> FALSE,
   listening |-> FALSE, replStarted |-> FALSE, processed |-> 0,
   given |-> <<>>, refreshed |-> FALSE]

\* the catch that also starts listening and the REPL
startCatchListens(s) ==
  [s EXCEPT !.phase = "terminated", !.listening = TRUE, !.replStarted = TRUE]

\* lines 83 and 92: a failed login is logged and nothing else happens
startCatch(s) == [s EXCEPT !.phase = "terminated"]

\* lines 63-82: after the login, listen() and repl.start()
startThen(s) ==
  [s EXCEPT !.phase = "authenticated", !.loggedIn = TRUE, !.listening = TRUE,
            !.replStarted = TRUE]

\* the single command followed by a REPL
startSingleThenRepl(s) ==
  [s EXCEPT !.phase = "authenticated", !.loggedIn = TRUE, !.processed = @ + 1,
            !.replStarted = TRUE]

\* line 91: after the login, one processCommand; no listen(), no REPL
startSingleThen(s) ==
  [s EXCEPT !.phase = "authenticated", !.loggedIn = TRUE, !.processed = @ + 1]

\* a session that start() has brought to its prompt
Started == startThen([NotStarted EXCEPT !.mode = "interactive"])

messerVars == <<threadCache, threadNameToIdMap, lastThread, unreadMessagesCount,
                lockState, pending, repl, last, nPuts, lastPut>>

\* lines 59-62: start() asks the backend to log in
Start ==
  /\ session.phase = "unauthenticated"
  /\ session' = [session EXCEPT !.mode = "interactive", !.phase = "authenticating"]
  /\ UNCHANGED messerVars

\* lines 88-90: startSingle(rawCommand) asks the backend to log in
StartSingle(rawCommand) ==
  /\ session.phase = "unauthenticated"
  /\ session' = [session EXCEPT !.mode = "single", !.phase = "authenticating",
                                !.given = rawCommand]
  /\ UNCHANGED messerVars

LoginFails ==
  /\ session.phase = "authenticating"
  /\ session' = startCatch(session)
  /\ UNCHANGED messerVars

StartLoggedIn ==
  /\ session.phase = "authenticating"
  /\ session.mode = "interactive"
  /\ session' = startThen(session)
  /\ UNCHANGED messerVars

StartSingleLoggedIn ==
  /\ session.phase = "authenticating"
  /\ session.mode = "single"
  /\ session' = startSingleThen(session)
  /\ ProcessCommand(session.given)

\* lines 69-72: the REPL hands one line to eval, which calls processCommand
ReplEval(input) ==
  /\ session.phase = "authenticated"
  /\ session.replStarted
  /\ session.processed < MaxCommands
  /\ session' = [session EXCEPT !.processed = @ + 1]
  /\ ProcessCommand(input)

\* lines 73-80 in a running session
ReplDone ==
  /\ session.phase = "authenticated"
  /\ session.replStarted
  /\ ReplCallback
  /\ UNCHANGED session

\* lines 251-255: the backend logout, then process.exit
Logout ==
  /\ session.phase = "authenticated"
  /\ session' = [session EXCEPT !.phase = "terminated"]
  /\ UNCHANGED messerVars

EmptyCache == << >>

\* lines 31-40: the constructor
Constructed ==
  /\ threadCache = EmptyCache
  /\ threadNameToIdMap = <<>>
  /\ lastThread = NoThread
  /\ unreadMessagesCount = 0
  /\ lockState = Unlocked
  /\ pending = Idle
  /\ repl = "prompt"
  /\ nPuts = 0
  /\ lastPut = [byId |-> << >>, byName |-> << >>]
  /\ last = NoCall

\* a running interactive session
Init == Constructed /\ session = Started

\* a session before start() or startSingle()
InitSession == Constructed /\ session = NotStarted

Next ==
  \/ \E rawCommand \in Lines : ProcessCommand(rawCommand) /\ UNCHANGED session
  \/ ReplCallback /\ UNCHANGED session
  \/ \E thread \in EventThreads : OnMessage(thread)

Spec == Init /\ [][Next]_vars

\* the thread cache and the resolver on their own
NextCache ==
  \/ \E thread \in RedThreads : CacheThread(thread)
  \/ \E threadID \in ThreadIds, requireName \in BOOLEAN :
       GetThreadByIdCall(threadID, requireName)
  \/ \E err \in BOOLEAN, data \in RedThreads : GetThreadInfoCallback(err, data)
  \/ \E threadName \in TypedNames : GetThreadByName(threadName)

SpecCache == Init /\ [][NextCache]_vars

\* sequences of cacheThread calls alone
NextPut == \E thread \in AllBackendThreads : CacheThread(thread)

SpecPut == Init /\ [][NextPut]_vars

\* refreshes of the thread list
NextRefresh == \E response \in Responses : RefreshThreadList(response)

SpecRefresh == Init /\ [][NextRefresh]_vars

\* the lifecycle: start or startSingle, the login, the REPL loop, logout
NextSession ==
  \/ Start
  \/ \E rawCommand \in Lines : StartSingle(rawCommand)
  \/ LoginFails
  \/ StartLoggedIn
  \/ StartSingleLoggedIn
  \/ \E input \in Lines : ReplEval(input)
  \/ ReplDone
  \/ Logout

SpecSession == InitSession /\ [][NextSession]_vars

\* ====================================================================
\* Properties of the dispatcher, checked under Spec
\* ====================================================================
IsCommandCall == last.op = "processCommand"
WasLocked == last.before.lockState.locked
PinnedTarget == last.before.lockState.target
OnlyWhitespace(s) == \A i \in 1..Len(s) : s[i] \in Whitespace

\* the first whitespace-delimited token of a line
RECURSIVE UpToWhitespace(_)
UpToWhitespace(s) ==
  IF s = <<>> \/ Head(s) \in Whitespace THEN <<>>
  ELSE <<Head(s)>> \o UpToWhitespace(Tail(s))

FirstWord(s) == UpToWhitespace(TrimLeft(s))

SessionStateKept ==
  /\ threadCache = last.before.threadCache
  /\ threadNameToIdMap = last.before.threadNameToIdMap
  /\ lockState = last.before.lockState
  /\ lastThread = last.before.lastThread

\* C1 (as stated): while the lock is pinned to T, every line that is not blank
\* and whose trimmed form is not unlock reaches the m handler, and only it, as
\* m "T" followed by the original input, and the lock stays pinned to T.
C1_LockRewriteVerbatim ==
  (IsCommandCall /\ WasLocked /\ ~OnlyWhitespace(last.input)
     /\ trim(last.input) # UNLOCK)
  => /\ last.invoked =
          <<[handler |-> "m",
             line |-> <<"m", " ", "\"">> \o PinnedTarget \o <<"\"", " ">>
                        \o last.input]>>
     /\ last.error # "InvalidCommand"
     /\ lockState = last.before.lockState

\* C1 (amended): as above, but the line handed to the m handler carries the
\* original input with its first newline character removed.
C1_LockRewrite ==
  (IsCommandCall /\ WasLocked /\ ~OnlyWhitespace(last.input)
     /\ trim(last.input) # UNLOCK)
  => /\ last.invoked =
          <<[handler |-> "m",
             line |-> <<"m", " ", "\"">> \o PinnedTarget \o <<"\"", " ">>
                        \o replaceFirst(last.input, "\n")]>>
     /\ last.error # "InvalidCommand"
     /\ lockState = last.before.lockState

\* a locked session was given a line that starts with a registered verb other
\* than m, and the whole line went out as a message
C1_Witness ==
  /\ IsCommandCall /\ WasLocked
  /\ Len(last.input) = MaxLineLen
  /\ getCommandHandler(FirstWord(last.input)) = "lock"
  /\ Len(last.invoked) = 1
  /\ last.invoked[1].handler = "m"
  /\ lockState.locked

\* C2: while the lock is pinned, a line whose trimmed form is exactly unlock
\* reaches the unlock handler with the line as typed, never the m handler, and
\* the lock is unset afterwards; whenever the session is locked and waits for a
\* line, that one command is possible.
C2_UnlockEscapes ==
  /\ (IsCommandCall /\ WasLocked /\ trim(last.input) = UNLOCK)
     => /\ last.invoked = <<[handler |-> "unlock", line |-> last.input]>>
        /\ ~lockState.locked
  /\ (lockState.locked /\ repl = "prompt")
     => ENABLED (ProcessCommand(UNLOCK) /\ ~lockState'.locked)

\* a locked session got unlock followed by the newline of the REPL
C2_Witness ==
  /\ IsCommandCall /\ WasLocked
  /\ last.input = UNLOCK \o <<"\n">>
  /\ ~lockState.locked

\* C3: with the lock unset, every line that is not blank and whose first
\* whitespace-delimited token is a registered verb (also after leading
\* whitespace) reaches exactly that verb's handler, once, unchanged, and the
\* call returns what the handler returned.
C3_RegisteredVerbDispatched ==
  (IsCommandCall /\ ~WasLocked /\ ~OnlyWhitespace(last.input)
     /\ getCommandHandler(FirstWord(last.input)) # NoHandler)
  => /\ last.invoked =
          <<[handler |-> getCommandHandler(FirstWord(last.input)),
             line |-> last.input]>>
     /\ last.outcome = last.handlerOutcome

C5_BlankLineNoOp ==
  (IsCommandCall /\ OnlyWhitespace(last.input))
  => /\ last.outcome = "resolved"
     /\ last.invoked = <<>>
     /\ threadCache = last.before.threadCache
     /\ threadNameToIdMap = last.before.threadNameToIdMap
     /\ lockState = last.before.lockState

\* a locked session with a cached thread got a line of whitespace only
C5_Witness ==
  /\ IsCommandCall /\ WasLocked
  /\ last.input # <<>> /\ OnlyWhitespace(last.input)
  /\ last.outcome = "resolved"
  /\ DOMAIN threadCache # {}

\* C6: when processCommand returns, unreadMessagesCount is 0, whatever the line,
\* the lock and the count before the call.
C6_UnreadReset == IsCommandCall => unreadMessagesCount = 0

\* a command was processed while messages were unread
C6_Witness ==
  /\ IsCommandCall
  /\ last.before.unreadMessagesCount = MaxUnread
  /\ unreadMessagesCount = 0

\* ====================================================================
\* Properties of the thread cache, checked under SpecPut and SpecCache
\* ====================================================================
\* C7: after any sequence of cacheThread calls, the cache holds under each id
\* exactly the five kept fields of the last thread put with that id (and
\* nothing under an id never put), and the index maps each name that is not
\* empty to the id of the last thread put with that name.
C7_LastPutWins ==
  /\ DOMAIN threadCache = DOMAIN lastPut.byId
  /\ \A id \in DOMAIN lastPut.byId :
       threadCache[id] =
         [threadID |-> id,
          name |-> lastPut.byId[id].name,
          color |-> lastPut.byId[id].color,
          lastMessageTimestamp |-> lastPut.byId[id].lastMessageTimestamp,
          unreadCount |-> lastPut.byId[id].unreadCount]
  /\ \A name \in DOMAIN lastPut.byName :
       \E i \in 1..Len(threadNameToIdMap) :
         /\ threadNameToIdMap[i] = <<name, lastPut.byName[name]>>
         /\ \A j \in 1..Len(threadNameToIdMap) :
              threadNameToIdMap[j][1] = name => j = i
  /\ \A i \in 1..Len(threadNameToIdMap) :
       threadNameToIdMap[i][1] \in DOMAIN lastPut.byName

\* two puts under one id with different names and colours, and two puts of one
\* name under different ids
C7_Witness ==
  /\ nPuts = MaxPuts
  /\ \/ /\ Cardinality(DOMAIN threadCache) = 1
        /\ Len(threadNameToIdMap) = 1
        /\ \E id \in DOMAIN threadCache :
             /\ threadCache[id].name \notin {NoName, threadNameToIdMap[1][1]}
             /\ threadCache[id].color = "blue"
     \/ /\ Cardinality(DOMAIN threadCache) = 1
        /\ Len(threadNameToIdMap) = 2

\* C8: every cached thread is stored under its own id, and when its stored name
\* is not empty the index maps exactly that name to that thread's id.
C8_CachedNameIndexed ==
  \A id \in DOMAIN threadCache :
    /\ threadCache[id].threadID = id
    /\ threadCache[id].name # NoName
       => \E i \in 1..Len(threadNameToIdMap) :
            threadNameToIdMap[i] = <<threadCache[id].name, id>>

\* C9: a getThreadById(id) that succeeds leaves id in the cache, and a
\* getThreadById(id) called right after one that fetched id from the backend
\* is answered from the cache: one backend call for the two.
C9_SecondCallHitsCache ==
  /\ []((last.op = "getThreadById" /\ last.outcome = "resolved")
        => last.threadID \in DOMAIN threadCache)
  /\ [][\A requireName \in BOOLEAN :
          (/\ last.op = "getThreadById"
           /\ last.outcome = "resolved"
           /\ last.backendCalls = 1
           /\ GetThreadByIdCall(last.threadID, requireName))
          => /\ ~pending'.active
             /\ last'.op = "getThreadById"
             /\ last'.outcome = "resolved"
             /\ last.backendCalls + last'.backendCalls = 1]_vars

\* a getThreadById that had to ask the backend has succeeded
C9_Witness ==
  /\ last.op = "getThreadById"
  /\ last.outcome = "resolved"
  /\ last.backendCalls = 1
  /\ last.threadID \in DOMAIN threadCache

\* C10 (as stated): when some index key starts with the typed text, case
\* ignored, getThreadByName succeeds without the friends directory, the thread
\* it returns has the id the index gives for such a key, and that thread has a
\* name that is not empty.
C10_ResolvesThroughCache ==
  (/\ last.op = "getThreadByName"
   /\ \E i \in 1..Len(threadNameToIdMap) :
        startsWith(toLowerCase(threadNameToIdMap[i][1]), toLowerCase(last.input)))
  => /\ last.outcome = "resolved"
     /\ ~last.usedFriends
     /\ \E i \in 1..Len(threadNameToIdMap) :
          /\ startsWith(toLowerCase(threadNameToIdMap[i][1]), toLowerCase(last.input))
          /\ last.value.threadID = threadNameToIdMap[i][2]
     /\ last.value.name # NoName

\* C10 (amended): as above, but the returned thread has a name that is not
\* empty whenever the typed text is not empty.
C10_ResolvesThroughCacheTyped ==
  (/\ last.op = "getThreadByName"
   /\ \E i \in 1..Len(threadNameToIdMap) :
        startsWith(toLowerCase(threadNameToIdMap[i][1]), toLowerCase(last.input)))
  => /\ last.outcome = "resolved"
     /\ ~last.usedFriends
     /\ \E i \in 1..Len(threadNameToIdMap) :
          /\ startsWith(toLowerCase(threadNameToIdMap[i][1]), toLowerCase(last.input))
          /\ last.value.threadID = threadNameToIdMap[i][2]
     /\ last.input # <<>> => last.value.name # NoName

\* "a" resolved the thread indexed as "Al", which has lost its name, and the
\* typed text became the name of the returned thread
C10_Witness ==
  /\ last.op = "getThreadByName"
  /\ last.outcome = "resolved"
  /\ last.input = <<"a">>
  /\ Len(threadNameToIdMap) = 1
  /\ threadNameToIdMap[1][1] = <<"A", "l">>
  /\ last.value.name = <<"a">>

\* ====================================================================
\* Properties of the resolver's fallback and of failed calls, checked
\* under SpecCache
\* ====================================================================
NoKeyMatches(text) ==
  \A i \in 1..Len(threadNameToIdMap) :
    ~startsWith(toLowerCase(threadNameToIdMap[i][1]), toLowerCase(text))

FriendsNamed(text) ==
  {i \in 1..Len(user.friends) :
     startsWith(toLowerCase(user.friends[i].fullName), toLowerCase(text))}

\* C11: when no index key starts with the typed text, case ignored,
\* getThreadByName returns the thread made of the id and the full name of the
\* first friend whose full name starts with the text, case ignored, and fails
\* with ThreadNotFound when there is no such friend; either way the backend is
\* not called and the cache and the index stay as they were.
C11_FriendsFallback ==
  [][\A threadName \in TypedNames :
       (GetThreadByName(threadName) /\ NoKeyMatches(threadName))
       => /\ UNCHANGED <<threadCache, threadNameToIdMap>>
          /\ ~pending'.active
          /\ last'.op = "getThreadByName"
          /\ last'.backendCalls = 0
          /\ IF FriendsNamed(threadName) = {}
             THEN /\ last'.outcome = "rejected"
                  /\ last'.error = "ThreadNotFound"
             ELSE LET f == CHOOSE i \in FriendsNamed(threadName) :
                             \A j \in FriendsNamed(threadName) : i <= j
                  IN  /\ last'.outcome = "resolved"
                      /\ last'.value = [threadID |-> user.friends[f].userID,
                                        name |-> user.friends[f].fullName]]_vars

\* "b" matched no key of an index that is not empty, and the first of the two
\* friends it matches was returned
C11_Witness ==
  /\ last.op = "getThreadByName"
  /\ last.input = <<"b">>
  /\ last.usedFriends
  /\ last.outcome = "resolved"
  /\ last.value = [threadID |-> "2", name |-> <<"B">>]
  /\ threadNameToIdMap # <<>>
  /\ DOMAIN threadCache # {}

\* ====================================================================
\* Properties of the lifecycle, checked under SpecSession
\* ====================================================================
Interactive == session.mode = "interactive"
Single == session.mode = "single"
AtRepl == session.phase = "authenticated" /\ session.replStarted

\* C12: in interactive mode, when the login fails listen() is never called,
\* the REPL is never started and processCommand is never invoked; listen() and
\* every processCommand invocation come after a successful login.
C12_NoListeningWithoutLogin ==
  /\ (Interactive /\ ~session.loggedIn)
     => /\ ~session.listening
        /\ ~session.replStarted
        /\ session.processed = 0
        /\ last.op # "processCommand"
        /\ session.phase # "authenticated"
  /\ (Interactive /\ (session.listening \/ session.processed > 0))
     => session.loggedIn

\* start() was called and the login failed
C12_Witness ==
  /\ Interactive
  /\ session.phase = "terminated"
  /\ ~session.loggedIn

\* C13: startSingle(command) invokes processCommand exactly once, with the
\* given command, after a successful login, and not at all when the login
\* fails; no REPL is started and no further command is processed.
C13_SingleRunsOnce ==
  Single
  => /\ ~session.replStarted
     /\ session.processed = (IF session.loggedIn THEN 1 ELSE 0)
     /\ session.loggedIn
        => /\ last.op = "processCommand"
           /\ last.input = session.given

\* startSingle was given a line with a registered verb, the login succeeded and
\* the handler has run
C13_Witness ==
  /\ Single
  /\ session.loggedIn
  /\ session.processed = 1
  /\ session.given = <<"m", " ", "m">>
  /\ last.input = <<"m", " ", "m">>
  /\ last.invoked # <<>>

\* C14: in interactive mode, after a successful login the session refreshes
\* the thread list on its own: by the time the REPL has finished its first
\* turn, getThreadList has been called.
C14_InitialRefresh ==
  (Interactive /\ AtRepl /\ session.processed > 0 /\ repl = "prompt")
  => session.refreshed

C16_OneNamePerId ==
  \A i, j \in 1..Len(threadNameToIdMap) :
    threadNameToIdMap[i][2] = threadNameToIdMap[j][2] => i = j

\* C17: a getThreadById call that fails, with the backend's error or with
\* FriendNotFound (a name is required, the thread has none and its id is
\* neither the user's nor a friend's), leaves the cache and the index as they
\* were; no step of the call changes them before the failure.
C17_FailedGetLeavesCache ==
  /\ [][\A threadID \in ThreadIds, requireName \in BOOLEAN :
         (GetThreadByIdCall(threadID, requireName) /\ pending'.active)
         => UNCHANGED <<threadCache, threadNameToIdMap>>]_vars
  /\ [][\A err \in BOOLEAN, data \in RedThreads :
         GetThreadInfoCallback(err, data)
         => LET nameMissing ==
                  /\ pending.requireName
                  /\ data.name = NoName
                  /\ pending.threadID # user.id
                  /\ \A i \in 1..Len(user.friends) :
                       user.friends[i].userID # pending.threadID
            IN  /\ last'.outcome = "rejected" <=> (err \/ nameMissing)
                /\ last'.outcome = "rejected"
                   => /\ UNCHANGED <<threadCache, threadNameToIdMap>>
                      /\ last'.error = IF err THEN "BackendError"
                                       ELSE "FriendNotFound"]_vars

\* a getThreadById that needed a name failed with FriendNotFound while the
\* cache and the index held other threads
C17_Witness ==
  /\ last.op = "getThreadById"
  /\ last.outcome = "rejected"
  /\ last.error = "FriendNotFound"
  /\ last.threadID = "3"
  /\ DOMAIN threadCache # {}
  /\ threadNameToIdMap # <<>>

\* C18: whenever getThreadById(id, requireName = true) succeeds, the thread it
\* returns has a name that is not empty, from the cache or from the backend.
C18_RequiredNamePresent ==
  (last.op = "getThreadById" /\ last.requireName /\ last.outcome = "resolved")
  => last.value.name # NoName

\* C19: a getThreadByName that resolves without a backend fetch, the id it
\* found being in the cache, leaves the cache and the index as they were.
C19_ResolverLeavesCachedEntry ==
  [][\A threadName \in TypedNames :
       (GetThreadByName(threadName) /\ ~pending'.active)
       => UNCHANGED <<threadCache, threadNameToIdMap>>]_vars

\* ====================================================================
\* Properties of refreshThreadList, checked under SpecRefresh
\* ====================================================================
IsRefresh == last.op = "refreshThreadList"
Returned == last.response.threads

CacheKept ==
  /\ threadCache = last.before.threadCache
  /\ threadNameToIdMap = last.before.threadNameToIdMap

StillListening ==
  /\ session.phase = "authenticated"
  /\ session.listening
  /\ session.replStarted
  /\ ENABLED ProcessCommand(<<"m">>)

\* every returned thread is in the cache under its id, with the fields of the
\* last returned thread of that id
AllReturnedCached ==
  \A i \in 1..Len(Returned) :
    LET id == Returned[i].threadID
    IN  /\ id \in DOMAIN threadCache
        /\ threadCache[id].threadID = id
        /\ (\A j \in (i + 1)..Len(Returned) : Returned[j].threadID # id)
           => threadCache[id].name = Returned[i].name

\* C20 (as stated): refreshThreadList fails whenever the response has no
\* threads, the list being absent or empty, and then the cache and the index
\* are unchanged and the session is still listening; when the response has
\* threads it resolves and every returned thread is in the cache under its id.
C20_RefreshFailsWithoutThreads ==
  IsRefresh
  => IF ~last.response.present \/ Returned = <<>>
     THEN last.outcome = "rejected" /\ CacheKept /\ StillListening
     ELSE last.outcome = "resolved" /\ AllReturnedCached

\* C20 (amended): refreshThreadList fails exactly when the response has no
\* list, and then the cache and the index are unchanged and the session is
\* still listening; with a list it resolves and every returned thread is in
\* the cache under its id; an empty list changes nothing.
C20_RefreshFailsWithoutList ==
  IsRefresh
  => /\ StillListening
     /\ IF ~last.response.present
        THEN last.outcome = "rejected" /\ CacheKept
        ELSE /\ last.outcome = "resolved"
             /\ AllReturnedCached
             /\ Returned = <<>> => CacheKept

\* a refresh of a cache that is not empty got an empty list and resolved
C20_Witness ==
  /\ IsRefresh
  /\ last.response.present
  /\ Returned = <<>>
  /\ last.outcome = "resolved"
  /\ DOMAIN threadCache # {}

====
